---- MODULE Spec2Model ----
(***************************************************************************)
(* Model of two drivers of boxfire/rm2_linux:                              *)
(*   - the Wacom I2C pen digitizer (sample handler, open/close,            *)
(*     suspend/resume),                                                    *)
(*   - the SY7636A regulator (enable with power-good poll, disable) and    *)
(*     the SY7636A MFD attributes (VCOM, fault state, power good).         *)
(* The two drivers share no state; each has its own specification.         *)
(***************************************************************************)
EXTENDS Integers, Sequences, FiniteSets, TLC

VARIABLES
    \* ---- wacom_i2c ----
    data,        \* wac_i2c->data[3..21], the bytes the handler decodes
    prox,        \* wac_i2c->prox
    tool,        \* wac_i2c->tool
    rx,          \* <<return value>> of the last i2c_master_recv, << >> before the first
    events,      \* calls made on the input device by the last handler run
    irq_depth,   \* disable depth of client->irq (delivered iff 0)
    opened,      \* input device is open
    suspended,   \* device is suspended
    sess_tool,   \* tool key reported by the first in-proximity batch of the session
    sess_raw,    \* raw signal data[3] & 0x0c of the sample that began the session
    prev_tool,   \* tool key reported during the session before this one
    \* ---- sy7636a regulator ----
    pc,          \* position of the (single) caller in enable()/disable()
    caller,      \* operation in progress or last returned
    onoff,       \* SY7636A_OPERATION_MODE_CRL_ONOFF bit of the chip
    wait_cnt,    \* loop counter of the power-good poll
    pwr_good,    \* last value read from the power-good gpio
    ret,         \* return value of the last call
    en_ok,       \* the enable write of this enable() succeeded
    dis_ok,      \* outcome of the last disable write
    dis_writes,  \* disable writes issued by the call in progress
    reads,       \* power-good reads of this enable()
    sleeps,      \* poll sleeps of this enable()
    late_reads,  \* power-good reads made after a read returned true
    settled,     \* the settle sleep has elapsed since the last disable write
    \* ---- sy7636a mfd attributes ----
    vcom_l,      \* SY7636A_REG_VCOM_ADJUST_CTRL_L
    vcom_h,      \* SY7636A_REG_VCOM_ADJUST_CTRL_H
    fault_flag,  \* SY7636A_REG_FAULT_FLAG as last read
    op,          \* last attribute operation
    arg,         \* its argument
    res,         \* its result
    wrote,       \* register writes it issued, in order, each with its outcome
    stored,      \* magnitude of the last set that succeeded, -1 once a later write was issued
    pre_l,       \* VCOM_ADJUST_CTRL_L before it
    pre_h        \* VCOM_ADJUST_CTRL_H before it

penVars == <<data, prox, tool, rx, events, irq_depth, opened, suspended,
             sess_tool, sess_raw, prev_tool>>
pwrVars == <<pc, caller, onoff, wait_cnt, pwr_good, ret, en_ok, dis_ok,
             dis_writes, reads, sleeps, late_reads, settled>>
mfdVars == <<vcom_l, vcom_h, fault_flag, op, arg, res, wrote, stored, pre_l, pre_h>>
vars == <<penVars, pwrVars, mfdVars>>

(***************************************************************************)
(* Machine arithmetic                                                      *)
(***************************************************************************)
RECURSIVE BitAnd(_, _)
BitAnd(a, b) ==
    IF a = 0 \/ b = 0 THEN 0
    ELSE 2 * BitAnd(a \div 2, b \div 2) + (IF a % 2 = 1 /\ b % 2 = 1 THEN 1 ELSE 0)

RECURSIVE BitOr(_, _)
BitOr(a, b) ==
    IF a = 0 THEN b
    ELSE IF b = 0 THEN a
    ELSE 2 * BitOr(a \div 2, b \div 2) + (IF a % 2 = 1 \/ b % 2 = 1 THEN 1 ELSE 0)

Pow2(n) == 2 ^ n
ShiftLeft(a, n) == a * Pow2(n)
ShiftRight(a, n) == a \div Pow2(n)

\* An unsigned int (32 bits) as its two 16-bit halves
U32(h, l) == [hi |-> h, lo |-> l]
\* Conversion of an int to unsigned int (modulo 2^32)
ToU32(i) ==
    IF i >= 0 THEN U32(i \div 65536, i % 65536)
    ELSE LET low31 == (i + 2147483647) + 1
         IN U32(32768 + (low31 \div 65536), low31 % 65536)
\* u > k, unsigned, for a constant k below 2^16
UGt(u, k) == u.hi > 0 \/ u.lo > k
\* u / d, unsigned, for a constant d below 2^15
UDiv(u, d) == U32(u.hi \div d, (((u.hi % d) * 65536) + u.lo) \div d)
\* u & m for a constant mask m below 2^16
UAnd(u, m) == BitAnd(u.lo, m)
ToS16(u) == IF u >= Pow2(15) THEN u - Pow2(16) ELSE u

(***************************************************************************)
(* wacom_i2c                                                               *)
(***************************************************************************)
WACOM_QUERY_SIZE == 22

\* Offsets of wac_i2c->data that the handler reads, and the rest of the buffer
DataIdx == 3 .. (WACOM_QUERY_SIZE - 1)

\* Status bytes (data[3]) the device is made to send
StatusBytes == {0, 1, 4, 8, 12, 32, 33, 36, 40, 44, 50, 63}
\* Fill bytes of the geometry part of a sample
GeomBytes == {1, 255}
\* A sample as it is on the wire
WireSample(s, g) == [i \in DataIdx |-> IF i = 3 THEN s ELSE g]
\* Return values of i2c_master_recv: a negative errno or a byte count
EIO == -5
RecvResults == {EIO, 0, 3, 14, WACOM_QUERY_SIZE}

le16_to_cpup(buf, i) == buf[i] + 256 * buf[i + 1]

\* i2c_master_recv into wac_i2c->data: n bytes arrive, the rest stays
RecvInto(buf, wire, n) ==
    [i \in DataIdx |-> IF n > 0 /\ i < n THEN wire[i] ELSE buf[i]]

Bool(v) == IF v # 0 THEN 1 ELSE 0
Key(code, value) == [type |-> "EV_KEY", code |-> code, value |-> Bool(value)]
Abs(code, value) == [type |-> "EV_ABS", code |-> code, value |-> value]
Sync == [type |-> "EV_SYN", code |-> "SYN_REPORT", value |-> 0]

\* The latch recomputed on every sample
LatchTool_everySample(buf, p, t) ==
    IF BitAnd(buf[3], 12) # 0 THEN "BTN_TOOL_RUBBER" ELSE "BTN_TOOL_PEN"

\* The latch taken only once, when no tool was ever set
LatchTool_once(buf, p, t) ==
    IF t = "KEY_RESERVED"
    THEN (IF BitAnd(buf[3], 12) # 0 THEN "BTN_TOOL_RUBBER" ELSE "BTN_TOOL_PEN")
    ELSE t

\* The latch taken only on a sample that is itself in proximity
LatchTool_risingOnly(buf, p, t) ==
    IF ~p /\ BitAnd(buf[3], 32) # 0
    THEN (IF BitAnd(buf[3], 12) # 0 THEN "BTN_TOOL_RUBBER" ELSE "BTN_TOOL_PEN")
    ELSE t

\* wac_i2c->tool after the latch of lines 160-162
LatchTool(buf, p, t) ==
    IF ~p THEN (IF BitAnd(buf[3], 12) # 0 THEN "BTN_TOOL_RUBBER" ELSE "BTN_TOOL_PEN")
    ELSE t

\* wac_i2c->prox after line 164 (bool conversion of data[3] & 0x20)
NewProx(buf) == BitAnd(buf[3], 32) # 0

\* The report without the closing input_sync
Report_noSync(buf, t, p) ==
    LET tsw == BitAnd(buf[3], 1)
        ers == BitAnd(buf[3], 4)
        f1 == BitAnd(buf[3], 2)
        f2 == BitAnd(buf[3], 16)
    IN << Key("BTN_TOUCH", IF tsw # 0 \/ ers # 0 THEN 1 ELSE 0),
          Key(t, IF p THEN 1 ELSE 0),
          Key("BTN_STYLUS", f1),
          Key("BTN_STYLUS2", f2),
          Abs("ABS_X", le16_to_cpup(buf, 4)),
          Abs("ABS_Y", le16_to_cpup(buf, 6)),
          Abs("ABS_PRESSURE", le16_to_cpup(buf, 8)),
          Abs("ABS_DISTANCE", buf[10]),
          Abs("ABS_TILT_X", ToS16(le16_to_cpup(buf, 11))),
          Abs("ABS_TILT_Y", ToS16(le16_to_cpup(buf, 13))) >>

\* The report taking the eraser state from the classification mask
Report_ersMask0c(buf, t, p) ==
    LET tsw == BitAnd(buf[3], 1)
        ers == BitAnd(buf[3], 12)
        f1 == BitAnd(buf[3], 2)
        f2 == BitAnd(buf[3], 16)
    IN << Key("BTN_TOUCH", IF tsw # 0 \/ ers # 0 THEN 1 ELSE 0),
          Key(t, IF p THEN 1 ELSE 0),
          Key("BTN_STYLUS", f1),
          Key("BTN_STYLUS2", f2),
          Abs("ABS_X", le16_to_cpup(buf, 4)),
          Abs("ABS_Y", le16_to_cpup(buf, 6)),
          Abs("ABS_PRESSURE", le16_to_cpup(buf, 8)),
          Abs("ABS_DISTANCE", buf[10]),
          Abs("ABS_TILT_X", ToS16(le16_to_cpup(buf, 11))),
          Abs("ABS_TILT_Y", ToS16(le16_to_cpup(buf, 13))),
          Sync >>

\* The batch of lines 166-176
Report(buf, t, p) ==
    LET tsw == BitAnd(buf[3], 1)
        ers == BitAnd(buf[3], 4)
        f1 == BitAnd(buf[3], 2)
        f2 == BitAnd(buf[3], 16)
    IN << Key("BTN_TOUCH", IF tsw # 0 \/ ers # 0 THEN 1 ELSE 0),
          Key(t, IF p THEN 1 ELSE 0),
          Key("BTN_STYLUS", f1),
          Key("BTN_STYLUS2", f2),
          Abs("ABS_X", le16_to_cpup(buf, 4)),
          Abs("ABS_Y", le16_to_cpup(buf, 6)),
          Abs("ABS_PRESSURE", le16_to_cpup(buf, 8)),
          Abs("ABS_DISTANCE", buf[10]),
          Abs("ABS_TILT_X", ToS16(le16_to_cpup(buf, 11))),
          Abs("ABS_TILT_Y", ToS16(le16_to_cpup(buf, 13))),
          Sync >>

\* The handler going on to decode after a failed read
wacom_i2c_irq_noErrorTest(n, wire) ==
    /\ irq_depth = 0
    /\ rx' = <<n>>
    /\ LET buf == RecvInto(data, wire, n)
           t == LatchTool(buf, prox, tool)
           p == NewProx(buf)
       IN /\ data' = buf
          /\ tool' = t
          /\ prox' = p
          /\ events' = Report(buf, t, p)
          /\ sess_tool' = IF ~p THEN "none"
                          ELSE IF sess_tool = "none" THEN t ELSE sess_tool
          /\ sess_raw' = IF ~p THEN "none"
                         ELSE IF sess_raw = "none"
                              THEN (IF BitAnd(buf[3], 12) # 0 THEN "eraser" ELSE "pen")
                         ELSE sess_raw
          /\ prev_tool' = IF ~p /\ sess_tool # "none" THEN sess_tool ELSE prev_tool
    /\ UNCHANGED <<irq_depth, opened, suspended>>
    /\ UNCHANGED <<pwrVars, mfdVars>>

\* wacom_i2c_irq with the outcome n of the read and the bytes on the wire
wacom_i2c_irq(n, wire) ==
    /\ irq_depth = 0
    /\ rx' = <<n>>
    /\ IF n < 0
       THEN /\ events' = << >>
            /\ UNCHANGED <<data, prox, tool, sess_tool, sess_raw, prev_tool>>
       ELSE LET buf == RecvInto(data, wire, n)
                t == LatchTool(buf, prox, tool)
                p == NewProx(buf)
            IN /\ data' = buf
               /\ tool' = t
               /\ prox' = p
               /\ events' = Report(buf, t, p)
               /\ sess_tool' = IF ~p THEN "none"
                               ELSE IF sess_tool = "none" THEN t ELSE sess_tool
               /\ sess_raw' = IF ~p THEN "none"
                              ELSE IF sess_raw = "none"
                                   THEN (IF BitAnd(buf[3], 12) # 0 THEN "eraser" ELSE "pen")
                              ELSE sess_raw
               /\ prev_tool' = IF ~p /\ sess_tool # "none" THEN sess_tool ELSE prev_tool
    /\ UNCHANGED <<irq_depth, opened, suspended>>
    /\ UNCHANGED <<pwrVars, mfdVars>>

\* An enable that unmasks the line whatever the nesting depth
enable_irq_force(d) == 0

\* enable_irq / disable_irq of the interrupt core: a nesting depth
enable_irq(d) == IF d = 0 THEN 0 ELSE d - 1
disable_irq(d) == d + 1

wacom_i2c_open ==
    /\ ~opened
    /\ opened' = TRUE
    /\ irq_depth' = enable_irq(irq_depth)
    /\ UNCHANGED <<data, prox, tool, rx, events, suspended, sess_tool, sess_raw, prev_tool>>
    /\ UNCHANGED <<pwrVars, mfdVars>>

wacom_i2c_close ==
    /\ opened
    /\ opened' = FALSE
    /\ irq_depth' = disable_irq(irq_depth)
    /\ UNCHANGED <<data, prox, tool, rx, events, suspended, sess_tool, sess_raw, prev_tool>>
    /\ UNCHANGED <<pwrVars, mfdVars>>

wacom_i2c_suspend ==
    /\ ~suspended
    /\ suspended' = TRUE
    /\ irq_depth' = disable_irq(irq_depth)
    /\ UNCHANGED <<data, prox, tool, rx, events, opened, sess_tool, sess_raw, prev_tool>>
    /\ UNCHANGED <<pwrVars, mfdVars>>

wacom_i2c_resume ==
    /\ suspended
    /\ suspended' = FALSE
    /\ irq_depth' = enable_irq(irq_depth)
    /\ UNCHANGED <<data, prox, tool, rx, events, opened, sess_tool, sess_raw, prev_tool>>
    /\ UNCHANGED <<pwrVars, mfdVars>>

\* State after wacom_i2c_probe: zeroed instance, interrupt requested then disabled
InitPen ==
    /\ data = [i \in DataIdx |-> 0]
    /\ prox = FALSE
    /\ tool = "KEY_RESERVED"
    /\ rx = << >>
    /\ events = << >>
    /\ irq_depth = 1
    /\ opened = FALSE
    /\ suspended = FALSE
    /\ sess_tool = "none"
    /\ sess_raw = "none"
    /\ prev_tool = "none"

IrqStep == \E n \in RecvResults, s \in StatusBytes, g \in GeomBytes :
               wacom_i2c_irq(n, WireSample(s, g))

NextPen ==
    \/ IrqStep
    \/ wacom_i2c_open
    \/ wacom_i2c_close
    \/ wacom_i2c_suspend
    \/ wacom_i2c_resume


(***************************************************************************)
(* sy7636a-regulator                                                       *)
(***************************************************************************)
wait_time == 500
ETIME == 62
EINVAL == 22

\* Values of gpiod_get_value_cansleep: a negative errno, 0 or 1
GpioValues == {EIO, 0, 1}

\* regulator_enable_regmap: sets the enable bit unless the write fails
regulator_enable_regmap(ok) == IF ok THEN TRUE ELSE onoff
\* regulator_disable_regmap: clears the enable bit unless the write fails
regulator_disable_regmap(ok) == IF ok THEN FALSE ELSE onoff

\* The disable path returning at once when the write failed
DisableWrite_noSleepOnError(ok, before) ==
    /\ onoff' = regulator_disable_regmap(ok)
    /\ dis_ok' = ok
    /\ dis_writes' = before + 1
    /\ settled' = FALSE
    /\ pc' = IF ok THEN "settle" ELSE "idle"

\* Lines 44-47 of sy7636a_disable_regulator: the write, then on to the sleep
DisableWrite(ok, before) ==
    /\ onoff' = regulator_disable_regmap(ok)
    /\ dis_ok' = ok
    /\ dis_writes' = before + 1
    /\ settled' = FALSE
    /\ pc' = "settle"

\* enable() polling on although the enable write failed
EnableCall_ignoreWriteError(ok) ==
    /\ pc = "idle"
    /\ caller' = "enable"
    /\ onoff' = regulator_enable_regmap(ok)
    /\ en_ok' = ok
    /\ pwr_good' = 0
    /\ wait_cnt' = 0
    /\ reads' = 0
    /\ sleeps' = 0
    /\ late_reads' = 0
    /\ dis_writes' = 0
    /\ ret' = 0
    /\ pc' = "poll"
    /\ UNCHANGED <<dis_ok, settled>>
    /\ UNCHANGED <<penVars, mfdVars>>

\* sy7636a_enable_regulator_pgood, lines 94-98: the enable write
EnableCall(ok) ==
    /\ pc = "idle"
    /\ caller' = "enable"
    /\ onoff' = regulator_enable_regmap(ok)
    /\ en_ok' = ok
    /\ pwr_good' = 0
    /\ wait_cnt' = 0
    /\ reads' = 0
    /\ sleeps' = 0
    /\ late_reads' = 0
    /\ dis_writes' = 0
    /\ IF ok THEN ret' = 0 /\ pc' = "poll"
             ELSE ret' = EIO /\ pc' = "idle"
    /\ UNCHANGED <<dis_ok, settled>>
    /\ UNCHANGED <<penVars, mfdVars>>

\* The poll going on after power-good read true
PollRead_noBreak(v) ==
    /\ pc = "poll"
    /\ pwr_good' = v
    /\ reads' = reads + 1
    /\ late_reads' = IF pwr_good > 0 THEN late_reads + 1 ELSE late_reads
    /\ IF v < 0 THEN ret' = v /\ pc' = "idle"
       ELSE ret' = ret /\ pc' = "sleep"
    /\ UNCHANGED <<caller, onoff, wait_cnt, en_ok, dis_ok, dis_writes, sleeps, settled>>
    /\ UNCHANGED <<penVars, mfdVars>>

\* The poll keeping the error of a failed read but going on
PollRead_noAbort(v) ==
    /\ pc = "poll"
    /\ pwr_good' = v
    /\ reads' = reads + 1
    /\ late_reads' = IF pwr_good > 0 THEN late_reads + 1 ELSE late_reads
    /\ IF v < 0 THEN ret' = v /\ pc' = "sleep"
       ELSE IF v # 0 THEN ret' = ret /\ pc' = "after_loop"
       ELSE ret' = ret /\ pc' = "sleep"
    /\ UNCHANGED <<caller, onoff, wait_cnt, en_ok, dis_ok, dis_writes, sleeps, settled>>
    /\ UNCHANGED <<penVars, mfdVars>>

\* Lines 101-107: one read of the power-good gpio
PollRead(v) ==
    /\ pc = "poll"
    /\ pwr_good' = v
    /\ reads' = reads + 1
    /\ late_reads' = IF pwr_good > 0 THEN late_reads + 1 ELSE late_reads
    /\ IF v < 0 THEN ret' = v /\ pc' = "idle"
       ELSE IF v # 0 THEN ret' = ret /\ pc' = "after_loop"
       ELSE ret' = ret /\ pc' = "sleep"
    /\ UNCHANGED <<caller, onoff, wait_cnt, en_ok, dis_ok, dis_writes, sleeps, settled>>
    /\ UNCHANGED <<penVars, mfdVars>>

\* Line 109 and the loop header of line 100: usleep_range, wait_cnt++, test
PollSleep ==
    /\ pc = "sleep"
    /\ sleeps' = sleeps + 1
    /\ wait_cnt' = wait_cnt + 1
    /\ pc' = IF wait_cnt + 1 < wait_time THEN "poll" ELSE "after_loop"
    /\ UNCHANGED <<caller, onoff, pwr_good, ret, en_ok, dis_ok, dis_writes,
                   reads, late_reads, settled>>
    /\ UNCHANGED <<penVars, mfdVars>>

\* The timeout path returning without the disable
AfterLoop_noDisable(ok) ==
    /\ pc = "after_loop"
    /\ pc' = "idle"
    /\ ret' = IF pwr_good = 0 THEN -ETIME ELSE ret
    /\ UNCHANGED <<onoff, dis_ok, dis_writes, settled>>
    /\ UNCHANGED <<caller, wait_cnt, pwr_good, en_ok, reads, sleeps, late_reads>>
    /\ UNCHANGED <<penVars, mfdVars>>

\* Lines 112-127: timeout test, the disable on timeout, or the return
AfterLoop(ok) ==
    /\ pc = "after_loop"
    /\ IF pwr_good = 0
       THEN /\ ret' = -ETIME
            /\ DisableWrite(ok, dis_writes)
       ELSE /\ pc' = "idle"
            /\ UNCHANGED <<ret, onoff, dis_ok, dis_writes, settled>>
    /\ UNCHANGED <<caller, wait_cnt, pwr_good, en_ok, reads, sleeps, late_reads>>
    /\ UNCHANGED <<penVars, mfdVars>>

\* sy7636a_disable_regulator called as the regulator's disable operation
DisableCall(ok) ==
    /\ pc = "idle"
    /\ caller' = "disable"
    /\ DisableWrite(ok, 0)
    /\ UNCHANGED <<wait_cnt, pwr_good, ret, en_ok, reads, sleeps, late_reads>>
    /\ UNCHANGED <<penVars, mfdVars>>

\* Lines 47-49: usleep_range(30000, 35000) and the return
Settle ==
    /\ pc = "settle"
    /\ settled' = TRUE
    /\ pc' = "idle"
    /\ ret' = IF caller = "disable" THEN (IF dis_ok THEN 0 ELSE EIO) ELSE ret
    /\ UNCHANGED <<caller, onoff, wait_cnt, pwr_good, en_ok, dis_ok, dis_writes,
                   reads, sleeps, late_reads>>
    /\ UNCHANGED <<penVars, mfdVars>>

\* State after sy7636a_regulator_probe: rail off, nobody inside a call
InitPwr ==
    /\ pc = "idle"
    /\ caller = "none"
    /\ onoff = FALSE
    /\ wait_cnt = 0
    /\ pwr_good = 0
    /\ ret = 0
    /\ en_ok = FALSE
    /\ dis_ok = TRUE
    /\ dis_writes = 0
    /\ reads = 0
    /\ sleeps = 0
    /\ late_reads = 0
    /\ settled = TRUE

EnableStep == \E ok \in BOOLEAN : EnableCall(ok)
PollReadStep == \E v \in GpioValues : PollRead(v)
AfterLoopStep == \E ok \in BOOLEAN : AfterLoop(ok)
DisableStep == \E ok \in BOOLEAN : DisableCall(ok)

NextPwr ==
    \/ EnableStep
    \/ PollReadStep
    \/ PollSleep
    \/ AfterLoopStep
    \/ DisableStep
    \/ Settle

(***************************************************************************)
(* sy7636a mfd: VCOM, fault state and power-good attributes                *)
(***************************************************************************)
\* static const char *states[], indexed from 0
states == [i \in 0 .. 15 |->
    CASE i = 0 -> "no fault event"
      [] i = 1 -> "UVP at VP rail"
      [] i = 2 -> "UVP at VN rail"
      [] i = 3 -> "UVP at VPOS rail"
      [] i = 4 -> "UVP at VNEG rail"
      [] i = 5 -> "UVP at VDDH rail"
      [] i = 6 -> "UVP at VEE rail"
      [] i = 7 -> "SCP at VP rail"
      [] i = 8 -> "SCP at VN rail"
      [] i = 9 -> "SCP at VPOS rail"
      [] i = 10 -> "SCP at VNEG rail"
      [] i = 11 -> "SCP at VDDH rail"
      [] i = 12 -> "SCP at VEE rail"
      [] i = 13 -> "SCP at V COM rail"
      [] i = 14 -> "UVLO"
      [] i = 15 -> "Thermal shutdown"]
ARRAY_SIZE_states == 16

\* sy7636a_regmap_config: val_bits = 8, a register keeps the low 8 bits
val_bits == 8
RegVal(v) == v % Pow2(val_bits)

\* Result records of the attribute operations
Ok(v) == [err |-> 0, val |-> v]
Err(e) == [err |-> e, val |-> 0]

\* get_vcom_voltage_mv dropping the high register
get_vcom_voltage_mv_lowOnly(l, h, rl, rh) ==
    IF ~rl THEN Err(EIO)
    ELSE IF ~rh THEN Err(EIO)
    ELSE Ok(BitAnd(l, 511) * 10)

\* get_vcom_voltage_mv on the register pair; rl, rh: the reads succeed
get_vcom_voltage_mv(l, h, rl, rh) ==
    IF ~rl THEN Err(EIO)
    ELSE IF ~rh THEN Err(EIO)
    ELSE LET val == BitOr(l, ShiftLeft(h, 8))
         IN Ok(BitAnd(val, 511) * 10)

\* The value set_vcom_voltage_mv computes at line 307
VcomUnits(vcom) == UAnd(UDiv(vcom, 10), 511)

\* The range test with >= in place of >
VcomRejected_exclusive(vcom) == FALSE \/ UGt(vcom, 4999)

\* The range test of line 304 on the unsigned parameter (vcom < 0 is never true)
VcomRejected(vcom) == FALSE \/ UGt(vcom, 5000)

\* One regmap_write as the caller sees it
W(reg, ok) == [reg |-> reg, ok |-> ok]

\* set_vcom_voltage_mv writing the low register before the range test
set_vcom_voltage_mv_writeFirst(vcom, l, h, wl, wh) ==
    LET val == VcomUnits(vcom)
    IN IF ~wl THEN [r |-> Err(EIO), l |-> l, h |-> h, w |-> <<W("VCOM_L", FALSE)>>]
       ELSE IF VcomRejected(vcom)
            THEN [r |-> Err(-EINVAL), l |-> RegVal(val), h |-> h,
                  w |-> <<W("VCOM_L", TRUE)>>]
       ELSE IF ~wh
            THEN [r |-> Err(EIO), l |-> RegVal(val), h |-> h,
                  w |-> <<W("VCOM_L", TRUE), W("VCOM_H", FALSE)>>]
       ELSE [r |-> Ok(0), l |-> RegVal(val), h |-> RegVal(ShiftRight(val, 8)),
             w |-> <<W("VCOM_L", TRUE), W("VCOM_H", TRUE)>>]

\* set_vcom_voltage_mv(regmap, vcom) with vcom already converted to unsigned;
\* wl, wh: the two register writes succeed.  Yields the result, the registers
\* after the call and the writes issued.
set_vcom_voltage_mv(vcom, l, h, wl, wh) ==
    IF VcomRejected(vcom)
    THEN [r |-> Err(-EINVAL), l |-> l, h |-> h, w |-> << >>]
    ELSE LET val == VcomUnits(vcom)
         IN IF ~wl THEN [r |-> Err(EIO), l |-> l, h |-> h, w |-> <<W("VCOM_L", FALSE)>>]
            ELSE IF ~wh
                 THEN [r |-> Err(EIO), l |-> RegVal(val), h |-> h,
                       w |-> <<W("VCOM_L", TRUE), W("VCOM_H", FALSE)>>]
            ELSE [r |-> Ok(0), l |-> RegVal(val), h |-> RegVal(ShiftRight(val, 8)),
                  w |-> <<W("VCOM_L", TRUE), W("VCOM_H", TRUE)>>]

\* What is known of the stored magnitude after a set that asked for mag
StoredAfter(out, mag) ==
    IF out.r.err = 0 THEN mag
    ELSE IF out.w = << >> THEN stored
    ELSE -1

\* The range test of line 387 on the parsed int
StoreRejected(vcom) == vcom > 0 \/ vcom < -5000

\* Requests: magnitudes handed to set_vcom_voltage_mv, as signed ints
VcomRequests ==
    {-2147483647, -5001, -5000, -10, -1, 0, 1, 9, 10, 11, 1234, 1250, 2549, 2550,
     2559, 2560, 2570, 4990, 4999, 5000, 5001, 5009, 5010, 5110, 5119, 5120,
     5130, 10240, 65536, 2147483647}

\* Values written to the vcom attribute, as kstrtoint parsed them
StoreRequests ==
    {-2147483647, -5120, -5010, -5001, -5000, -4999, -2560, -2559, -1234, -10, -9,
     -1, 0, 1, 10, 1234, 5000, 5001, 2147483647}

\* Call of set_vcom_voltage_mv with the int mv passed as the unsigned parameter
SetVoltage(mv, wl, wh) ==
    LET out == set_vcom_voltage_mv(ToU32(mv), vcom_l, vcom_h, wl, wh)
    IN /\ op' = "set_voltage"
       /\ arg' = mv
       /\ res' = out.r
       /\ wrote' = out.w
       /\ stored' = StoredAfter(out, mv)
       /\ vcom_l' = out.l
       /\ vcom_h' = out.h
       /\ pre_l' = vcom_l
       /\ pre_h' = vcom_h
       /\ UNCHANGED fault_flag
       /\ UNCHANGED <<penVars, pwrVars>>

\* vcom_store with the int that kstrtoint parsed; count is the length written
vcom_store(vcom, wl, wh) ==
    LET out == IF StoreRejected(vcom)
               THEN [r |-> Err(-EINVAL), l |-> vcom_l, h |-> vcom_h, w |-> << >>]
               ELSE set_vcom_voltage_mv(ToU32(-vcom), vcom_l, vcom_h, wl, wh)
    IN /\ op' = "vcom_store"
       /\ arg' = vcom
       /\ res' = out.r
       /\ wrote' = out.w
       /\ stored' = StoredAfter(out, -vcom)
       /\ vcom_l' = out.l
       /\ vcom_h' = out.h
       /\ pre_l' = vcom_l
       /\ pre_h' = vcom_h
       /\ UNCHANGED fault_flag
       /\ UNCHANGED <<penVars, pwrVars>>

\* Call of get_vcom_voltage_mv
GetVoltage(rl, rh) ==
    /\ op' = "get_voltage"
    /\ arg' = 0
    /\ res' = get_vcom_voltage_mv(vcom_l, vcom_h, rl, rh)
    /\ wrote' = << >>
    /\ pre_l' = vcom_l
    /\ pre_h' = vcom_h
    /\ UNCHANGED <<vcom_l, vcom_h, fault_flag, stored>>
    /\ UNCHANGED <<penVars, pwrVars>>

\* The regulator's read scaled like the attribute's read
sy7636a_get_vcom_voltage_mv_per10(l, h, rl, rh) ==
    IF ~rl THEN Err(EIO)
    ELSE IF ~rh THEN Err(EIO)
    ELSE LET val == BitOr(l, ShiftLeft(h, 8))
         IN Ok(BitAnd(val, 511) * 10)

\* sy7636a_get_vcom_voltage_mv of the regulator (lines 16-32): the same
\* decode, times 10000
sy7636a_get_vcom_voltage_mv(l, h, rl, rh) ==
    IF ~rl THEN Err(EIO)
    ELSE IF ~rh THEN Err(EIO)
    ELSE LET val == BitOr(l, ShiftLeft(h, 8))
         IN Ok(BitAnd(val, 511) * 10000)

\* sy7636a_get_vcom_voltage_op, the get_voltage operation of the regulator
sy7636a_get_vcom_voltage_op(rl, rh) ==
    /\ op' = "get_voltage_op"
    /\ arg' = 0
    /\ res' = sy7636a_get_vcom_voltage_mv(vcom_l, vcom_h, rl, rh)
    /\ wrote' = << >>
    /\ pre_l' = vcom_l
    /\ pre_h' = vcom_h
    /\ UNCHANGED <<vcom_l, vcom_h, fault_flag, stored>>
    /\ UNCHANGED <<penVars, pwrVars>>

\* vcom_show: the value printed is -ret
vcom_show(rl, rh) ==
    LET r == get_vcom_voltage_mv(vcom_l, vcom_h, rl, rh)
    IN /\ op' = "vcom_show"
       /\ arg' = 0
       /\ res' = IF r.err # 0 THEN r ELSE Ok(-r.val)
       /\ wrote' = << >>
       /\ pre_l' = vcom_l
       /\ pre_h' = vcom_h
       /\ UNCHANGED <<vcom_l, vcom_h, fault_flag, stored>>
       /\ UNCHANGED <<penVars, pwrVars>>

\* Magnitudes (in units of 10 mV) the chip may hold when the driver binds
InitVcomUnits == {0, 125, 500}

InitMfd ==
    /\ \E u \in InitVcomUnits : vcom_l = u % 256 /\ vcom_h = u \div 256
    /\ fault_flag = 0
    /\ op = "none"
    /\ arg = 0
    /\ res = Ok(0)
    /\ wrote = << >>
    /\ stored = -1
    /\ pre_l = vcom_l
    /\ pre_h = vcom_h

SetVoltageStep == \E mv \in VcomRequests, wl, wh \in BOOLEAN : SetVoltage(mv, wl, wh)
VcomStoreStep == \E v \in StoreRequests, wl, wh \in BOOLEAN : vcom_store(v, wl, wh)
GetVoltageStep == \E rl, rh \in BOOLEAN : GetVoltage(rl, rh)
VcomShowStep == \E rl, rh \in BOOLEAN : vcom_show(rl, rh)
GetVoltageOpStep == \E rl, rh \in BOOLEAN : sy7636a_get_vcom_voltage_op(rl, rh)

NextVcom ==
    \/ SetVoltageStep
    \/ VcomStoreStep
    \/ GetVoltageStep
    \/ VcomShowStep
    \/ GetVoltageOpStep

(***************************************************************************)
(* Fault state and power-good attributes                                   *)
(***************************************************************************)
\* state_show indexing the table without the shift
state_show_noShift(byte, rok) ==
    IF ~rok THEN Err(EIO)
    ELSE LET val == byte
         IN IF val >= ARRAY_SIZE_states THEN Err(-EINVAL)
            ELSE Ok(states[val])

\* state_show masking the index into the table instead of refusing it
state_show_masked(byte, rok) ==
    IF ~rok THEN Err(EIO)
    ELSE LET val == BitAnd(ShiftRight(byte, 1), 15)
         IN Ok(states[val])

\* state_show on the byte read from SY7636A_REG_FAULT_FLAG
state_show(byte, rok) ==
    IF ~rok THEN Err(EIO)
    ELSE LET val == ShiftRight(byte, 1)
         IN IF val >= ARRAY_SIZE_states THEN Err(-EINVAL)
            ELSE Ok(states[val])

\* powergood_show on the byte read from SY7636A_REG_FAULT_FLAG
powergood_show(byte, rok) ==
    IF ~rok THEN Err(EIO)
    ELSE Ok(IF BitAnd(byte, 1) # 0 THEN "ON" ELSE "OFF")

\* The state attribute is read while the chip's fault-flag register holds b
StateShow(b, rok) ==
    /\ fault_flag' = b
    /\ op' = "state_show"
    /\ arg' = 0
    /\ res' = state_show(b, rok)
    /\ wrote' = << >>
    /\ UNCHANGED <<vcom_l, vcom_h, stored, pre_l, pre_h>>
    /\ UNCHANGED <<penVars, pwrVars>>

\* The power_good attribute is read while the register holds b
PowergoodShow(b, rok) ==
    /\ fault_flag' = b
    /\ op' = "powergood_show"
    /\ arg' = 0
    /\ res' = powergood_show(b, rok)
    /\ wrote' = << >>
    /\ UNCHANGED <<vcom_l, vcom_h, stored, pre_l, pre_h>>
    /\ UNCHANGED <<penVars, pwrVars>>

\* Values of the 8-bit fault-flag register
FaultBytes == 0 .. 255

StateShowStep == \E b \in FaultBytes, rok \in BOOLEAN : StateShow(b, rok)
PowergoodShowStep == \E b \in FaultBytes, rok \in BOOLEAN : PowergoodShow(b, rok)

NextStatus ==
    \/ StateShowStep
    \/ PowergoodShowStep

(***************************************************************************)
(* Specifications                                                          *)
(***************************************************************************)
Init == InitPen /\ InitPwr /\ InitMfd

Next == NextPen \/ NextPwr \/ NextVcom \/ NextStatus

Spec == Init /\ [][Next]_vars

\* The pen digitizer alone
SpecPen == Init /\ [][NextPen]_vars

\* The regulator alone
SpecPwr == Init /\ [][NextPwr]_vars

\* The regulator with its calls running to completion
FairSpecPwr ==
    SpecPwr /\ WF_vars(PollReadStep) /\ WF_vars(PollSleep)
            /\ WF_vars(AfterLoopStep) /\ WF_vars(Settle)

\* The VCOM attribute alone
SpecVcom == Init /\ [][NextVcom]_vars

\* The fault-state and power-good attributes alone
SpecStatus == Init /\ [][NextStatus]_vars

(***************************************************************************)
(* Properties of the pen digitizer                                         *)
(***************************************************************************)
\* The last handler run emitted a batch
Emitted == events # << >>
\* The tool key of the batch and its proximity value
ToolKey == events[2].code
ToolValue == events[2].value
RawTool(b) == IF BitAnd(b, 12) # 0 THEN "BTN_TOOL_RUBBER" ELSE "BTN_TOOL_PEN"

\* C1: within a proximity session every in-proximity batch reports the tool
\* key that the first in-proximity batch of the session reported, whatever
\* the eraser bits of the later samples are.
C1_ToolHeldWithinSession ==
    (Emitted /\ ToolValue = 1) => ToolKey = sess_tool

\* A later sample of a session whose own eraser bits disagree with the tool reported
C1_Witness ==
    /\ Emitted /\ ToolValue = 1
    /\ sess_tool = "BTN_TOOL_RUBBER"
    /\ RawTool(data[3]) = "BTN_TOOL_PEN"

\* C2: the tool key reported during a session is the raw eraser signal of the
\* sample on which proximity rose, not the latch of an earlier session.
C2_SessionClassifiedByRisingSample ==
    (Emitted /\ ToolValue = 1) =>
        ToolKey = (IF sess_raw = "eraser" THEN "BTN_TOOL_RUBBER" ELSE "BTN_TOOL_PEN")

\* An eraser session that follows a pen session
C2_Witness ==
    /\ Emitted /\ ToolValue = 1
    /\ ToolKey = "BTN_TOOL_RUBBER"
    /\ sess_raw = "eraser"
    /\ prev_tool = "BTN_TOOL_PEN"

\* C10: a read that delivers fewer than 15 bytes emits nothing and leaves
\* the tracker (prox, tool) as it was.
C10_ShortReadEmitsNothing ==
    [][(IrqStep /\ rx'[1] < 15) =>
          (events' = << >> /\ prox' = prox /\ tool' = tool)]_vars

(***************************************************************************)
(* Properties of the regulator                                             *)
(***************************************************************************)
\* enable() has returned after a successful enable write and a poll in
\* which no read returned true or failed
EnableReturnedNoPgood ==
    pc = "idle" /\ caller = "enable" /\ en_ok /\ pwr_good = 0

FalseReads == IF reads > 0 /\ pwr_good # 0 THEN reads - 1 ELSE reads

C4_Bounded ==
    /\ reads <= wait_time
    /\ late_reads = 0
    /\ sleeps = IF pc = "sleep" THEN FalseReads - 1 ELSE FalseReads
    /\ (pc = "poll" => sleeps = reads)

\* C4: enable() terminates; it reads power-good at most 500 times, sleeps
\* once after each read that returned false, and never reads again after a
\* read that returned true.
C4_EnableTerminates ==
    /\ []C4_Bounded
    /\ (caller = "enable" /\ pc # "idle") ~> (pc = "idle")

\* An enable() that used the whole budget
C4_Witness ==
    caller = "enable" /\ pc = "idle" /\ reads = wait_time /\ sleeps = wait_time

\* C5: the settle sleep follows every disable write, whatever the write
\* returned and whoever called; no call returns, and so no enable write can
\* be issued, between a disable write and its sleep.
C5_SettleAfterEveryDisable ==
    /\ (pc = "idle" => settled)
    /\ (~settled => pc = "settle" /\ dis_writes = 1)
    /\ (pc = "idle" /\ caller = "disable" => dis_writes = 1)

\* A disable() whose write failed has slept before it returned
C5_Witness ==
    pc = "idle" /\ caller = "disable" /\ ~dis_ok /\ settled /\ dis_writes = 1 /\ ret = EIO

(***************************************************************************)
(* Properties of the VCOM attribute                                        *)
(***************************************************************************)
IsSet == op = "set_voltage"
IsStore == op = "vcom_store"
WritesWork == \A i \in 1 .. Len(wrote) : wrote[i].ok

\* C6: with working register writes set_voltage(mv) succeeds iff
\* 0 <= mv <= 5000 and is refused with -EINVAL otherwise, also for a negative
\* mv seen as unsigned; the vcom attribute accepts exactly -5000..0.
C6_AcceptsExactlyLegalRange ==
    /\ IsSet =>
         /\ (arg \in 0 .. 5000) => (res.err # -EINVAL /\ (WritesWork => res.err = 0))
         /\ (arg \notin 0 .. 5000) => res.err = -EINVAL
    /\ IsStore =>
         /\ (arg \in -5000 .. 0) => (res.err # -EINVAL /\ (WritesWork => res.err = 0))
         /\ (arg \notin -5000 .. 0) => res.err = -EINVAL

\* set_voltage(-1), which arrives as 2^32 - 1, was refused
C6_Witness == IsSet /\ arg = -1 /\ res.err = -EINVAL

\* C7: after a set_voltage(mv) that succeeded the register pair holds
\* floor(mv / 10) as low 8 bits and bit 8, the 0x1ff mask lost nothing, and a
\* get_voltage with no write in between returns 10 * floor(mv / 10).
C7_RoundTrip ==
    stored >= 0 =>
        /\ stored \in 0 .. 5000
        /\ VcomUnits(ToU32(stored)) = stored \div 10
        /\ vcom_l = (stored \div 10) % 256
        /\ vcom_h = (stored \div 10) \div 256
        /\ vcom_h \in {0, 1}
        /\ (op = "get_voltage" /\ res.err = 0) => res.val = 10 * (stored \div 10)

\* set_voltage(1234) then get_voltage gave 1230
C7_Witness == op = "get_voltage" /\ res.err = 0 /\ stored = 1234 /\ res.val = 1230

\* C9: a set_voltage refused with -EINVAL issued no register write and left
\* both VCOM registers as they were.
C9_RejectedWritesNothing ==
    ((IsSet \/ IsStore) /\ res.err = -EINVAL) =>
        (wrote = << >> /\ vcom_l = pre_l /\ vcom_h = pre_h)

\* set_voltage(5001) was refused while the registers hold another magnitude
C9_Witness ==
    /\ IsSet /\ arg = 5001 /\ res.err = -EINVAL
    /\ vcom_l = 125 /\ vcom_h = 0

(***************************************************************************)
(* Properties of the fault-state and power-good attributes                 *)
(***************************************************************************)
ReadOk == res.err # EIO
Bit0(b) == b % 2
Bits1to4(b) == (b \div 2) % 16
FlipBit0(b) == IF b % 2 = 1 THEN b - 1 ELSE b + 1
PgoodText(b) == IF Bit0(b) = 1 THEN "ON" ELSE "OFF"

\* C8 as stated: for every byte the fault is the table entry indexed by
\* bits 1-4 and power-good is bit 0, each independent of the other's bits.
C8_StatusForEveryByte ==
    /\ (op = "state_show" /\ ReadOk) =>
          (res.err = 0 /\ res.val = states[Bits1to4(fault_flag)])
    /\ (op = "powergood_show" /\ ReadOk) =>
          (res.err = 0 /\ res.val = PgoodText(fault_flag))

\* C8 amended: that holds for the bytes 0..31; a byte with any of bits 5-7
\* set makes the fault read fail with -EINVAL, power-good still being bit 0.
C8_StatusForBytesBelow32 ==
    /\ (op = "state_show" /\ ReadOk) =>
          /\ IF fault_flag < 32
             THEN res.err = 0 /\ res.val = states[Bits1to4(fault_flag)]
             ELSE res.err = -EINVAL
          /\ res = state_show(FlipBit0(fault_flag), TRUE)
    /\ (op = "powergood_show" /\ ReadOk) =>
          /\ res.err = 0 /\ res.val = PgoodText(fault_flag)
          /\ \A b \in FaultBytes :
                Bit0(b) = Bit0(fault_flag) => powergood_show(b, TRUE) = res

\* The byte 0b00000011 read as fault "UVP at VP rail"
C8_Witness ==
    op = "state_show" /\ fault_flag = 3 /\ res.err = 0 /\ res.val = "UVP at VP rail"
(***************************************************************************)
(* Further properties of the pen digitizer                                 *)
(***************************************************************************)
\* The handler ran and its read failed / delivered a count
ReadFailed == IrqStep /\ rx'[1] < 0
ReadDone == IrqStep /\ rx'[1] >= 0
\* The handler ran and its read filled the whole buffer
ReadFull == IrqStep /\ rx'[1] = WACOM_QUERY_SIZE

\* C11: a failed bus read emits no field update and no sync and leaves
\* prox and tool (and so the session being tracked) as they were.
C11_FailedReadLeavesTracker ==
    [][ReadFailed =>
          (events' = << >> /\ prox' = prox /\ tool' = tool
             /\ sess_tool' = sess_tool /\ sess_raw' = sess_raw)]_vars

\* A read failed in the middle of an eraser session
C11_Witness ==
    rx = <<EIO>> /\ events = << >> /\ prox /\ tool = "BTN_TOOL_RUBBER"
       /\ sess_tool = "BTN_TOOL_RUBBER"

\* Pen or Eraser, as the tracker's tool stands for it (Pen before any sample)
ToolKind(t) == IF t = "BTN_TOOL_RUBBER" THEN "Eraser" ELSE "Pen"

\* C12 as stated: the tool changes only on a sample that finds prox false
\* and is itself in proximity.
C12_ToolWrittenOnRisingEdgeOnly ==
    [][(ReadFull /\ ~(~prox /\ prox')) => ToolKind(tool') = ToolKind(tool)]_vars

\* C12 amended: the tool is rewritten from the eraser bits by every sample
\* processed while prox is false, in proximity or not, and by no sample
\* processed while prox is true.
C12_ToolWrittenWheneverOutOfProximity ==
    [][ReadDone =>
          (tool' = IF prox THEN tool ELSE RawTool(data'[3]))]_vars

\* Out of proximity after a pen session, the tool has become the eraser
C12_Witness ==
    /\ Emitted /\ ToolValue = 0 /\ ~prox
    /\ prev_tool = "BTN_TOOL_PEN" /\ tool = "BTN_TOOL_RUBBER"
(***************************************************************************)
(* Further properties of the regulator                                     *)
(***************************************************************************)
EnableReturned == pc = "idle" /\ caller = "enable"

\* C13: an enable() that fails after its enable write has run the disable
\* path and returns with the enable bit off.
C13_FailedEnableLeavesRailOff ==
    (EnableReturned /\ en_ok /\ ret # 0) =>
        (dis_writes = 1 /\ settled /\ onoff = FALSE)

\* C14: a power-good read that fails ends the poll at once: no further
\* read, no further sleep, and enable() returns that read's error.
C14_ReadErrorAborts ==
    (caller = "enable" /\ pwr_good < 0) =>
        /\ pc = "idle"
        /\ ret = pwr_good /\ ret # 0 /\ ret # -ETIME
        /\ sleeps = reads - 1
        /\ wait_cnt = reads - 1

\* The read failed on the last iteration of the budget
C14_Witness ==
    EnableReturned /\ pwr_good = EIO /\ ret = EIO /\ reads = wait_time

\* C15: enable() returns 0 only after a successful enable write and a
\* power-good read that returned true within the budget, every read before
\* it having returned false; no disable write was issued and the enable bit
\* is on.
C15_SuccessMeansPowerGood ==
    (EnableReturned /\ ret = 0) =>
        /\ en_ok
        /\ pwr_good > 0
        /\ reads \in 1 .. wait_time
        /\ sleeps = reads - 1
        /\ late_reads = 0
        /\ dis_writes = 0
        /\ onoff = TRUE

\* Power-good turned true on the 500th read
C15_Witness ==
    EnableReturned /\ ret = 0 /\ pwr_good = 1 /\ reads = wait_time /\ onoff
(***************************************************************************)
(* Further properties of the VCOM registers                                *)
(***************************************************************************)
\* The 9-bit value the register pair holds
Units9 == (vcom_l + 256 * vcom_h) % 512

C18_StoredMagnitudeInRange ==
    Units9 * 10 \in 0 .. 5000
(***************************************************************************)
(* Further properties of the fault-state attribute                         *)
(***************************************************************************)
FaultStrings == {states[i] : i \in DOMAIN states}

\* C17: whatever byte the fault-flag read returns, state_show either finds
\* byte >> 1 >= 16, fails with -EINVAL and outputs no string, or outputs
\* the one table entry at index byte >> 1, which is then below 16.
C17_NoIndexOutsideTable ==
    (op = "state_show" /\ ReadOk) =>
        IF fault_flag \div 2 >= ARRAY_SIZE_states
        THEN res = Err(-EINVAL)
        ELSE /\ res.err = 0
             /\ fault_flag \div 2 \in DOMAIN states
             /\ res.val \in FaultStrings
             /\ res.val = states[fault_flag \div 2]

\* The smallest byte whose index is 16 was refused
C17_Witness ==
    op = "state_show" /\ fault_flag = 32 /\ res = Err(-EINVAL)
(***************************************************************************)
(* The batch of one sample                                                 *)
(***************************************************************************)
FieldCodes ==
    {"BTN_TOUCH", tool, "BTN_STYLUS", "BTN_STYLUS2", "ABS_X", "ABS_Y",
     "ABS_PRESSURE", "ABS_DISTANCE", "ABS_TILT_X", "ABS_TILT_Y"}

Occurrences(c) == {i \in 1..Len(events) : events[i].code = c}

\* C19: a handler run whose read succeeded emitted exactly one batch, a
\* failed one none; the batch holds the contact key, the tool key, the two
\* button keys and the six axes once each, then one sync marker as its last
\* event, and its tool key is the latched tool with the sample's own
\* proximity bit.
C19_OneBatchPerSample ==
    /\ Emitted <=> (rx # << >> /\ rx[1] >= 0)
    /\ Emitted =>
         /\ Len(events) = 11
         /\ events[11] = Sync
         /\ Occurrences("SYN_REPORT") = {11}
         /\ Cardinality(FieldCodes) = 10
         /\ \A c \in FieldCodes : Cardinality(Occurrences(c)) = 1
         /\ \A i \in 1..4 : events[i].type = "EV_KEY"
         /\ \A i \in 5..10 : events[i].type = "EV_ABS"
         /\ ToolKey = tool
         /\ tool \in {"BTN_TOOL_PEN", "BTN_TOOL_RUBBER"}
         /\ ToolValue = (IF prox THEN 1 ELSE 0)
         /\ prox = (BitAnd(data[3], 32) # 0)

\* A full-length sample of an eraser in proximity was reported
C19_Witness ==
    /\ rx = <<WACOM_QUERY_SIZE>>
    /\ Len(events) = 11
    /\ events[11] = Sync
    /\ ToolKey = "BTN_TOOL_RUBBER"
    /\ ToolValue = 1
    /\ BitAnd(data[3], 32) # 0

(***************************************************************************)
(* Delivery of the sample interrupt                                        *)
(***************************************************************************)
LifecycleStep == opened' # opened \/ suspended' # suspended

\* C20: the interrupt is masked once for being closed and once for being
\* suspended, so the handler runs only while open and not suspended, a
\* resume of a closed device leaves it masked, and no enable_irq is called
\* without a disable_irq left to undo.
C20_DeliveryOnlyWhileOpenAndAwake ==
    /\ [](irq_depth = (IF opened THEN 0 ELSE 1) + (IF suspended THEN 1 ELSE 0))
    /\ [][IrqStep => (opened /\ ~suspended)]_vars
    /\ [][(suspended /\ ~suspended') => (irq_depth' = 0 <=> opened)]_vars
    /\ [][LifecycleStep =>
             \/ irq_depth' = irq_depth + 1
             \/ irq_depth > 0 /\ irq_depth' = irq_depth - 1]_vars

\* A closed device was resumed and stays masked, after samples were handled
C20_Witness ==
    /\ ~opened /\ ~suspended /\ irq_depth = 1
    /\ Emitted /\ prox
(***************************************************************************)
(* The status byte of a sample                                             *)
(***************************************************************************)
StatusBit(k) == IF BitAnd(data[3], Pow2(k)) # 0 THEN 1 ELSE 0
FullSampleReported == Emitted /\ rx = <<WACOM_QUERY_SIZE>>

\* C21 as stated: the contact key of a sample is touch (bit 0) OR the raw
\* eraser signal of the tool classification, (status & 0x0c) != 0, so a
\* sample that classifies as eraser always reports contact.
C21_ContactCountsClassificationSignal ==
    FullSampleReported =>
        /\ events[1].code = "BTN_TOUCH"
        /\ events[1].value =
              (IF StatusBit(0) = 1 \/ BitAnd(data[3], 12) # 0 THEN 1 ELSE 0)
        /\ (RawTool(data[3]) = "BTN_TOOL_RUBBER" => events[1].value = 1)

\* C21: the contact key of a sample is touch (bit 0) OR the eraser bit
\* (bit 2, status & 0x04) alone; bit 3 takes part only in the tool
\* classification (status & 0x0c), so a sample with bit 3 and neither bit 0
\* nor bit 2 classifies as eraser without contact; the two buttons are
\* bit 1 and bit 4 and proximity is bit 5.
C21_ContactIsTouchOrEraserBit ==
    FullSampleReported =>
        /\ events[1].code = "BTN_TOUCH"
        /\ events[1].value = (IF StatusBit(0) = 1 \/ StatusBit(2) = 1 THEN 1 ELSE 0)
        /\ (StatusBit(3) = 1 /\ StatusBit(0) = 0 /\ StatusBit(2) = 0 =>
               RawTool(data[3]) = "BTN_TOOL_RUBBER" /\ events[1].value = 0)
        /\ events[3].code = "BTN_STYLUS" /\ events[3].value = StatusBit(1)
        /\ events[4].code = "BTN_STYLUS2" /\ events[4].value = StatusBit(4)
        /\ ToolValue = StatusBit(5)
        /\ prox = (StatusBit(5) = 1)

\* An eraser end hovering in proximity: bit 3 and bit 5 only, no contact
C21_Witness ==
    /\ FullSampleReported
    /\ data[3] = 40
    /\ ToolKey = "BTN_TOOL_RUBBER"
    /\ ToolValue = 1
    /\ events[1].value = 0
====
